---- MODULE Spec2Model ----
(***************************************************************************)
(* Model of appli.py: the /search handler, ArxivSearcher.search_articles   *)
(* and ArxivSearcher._parse_xml_response.                                  *)
(*                                                                         *)
(* Text is a sequence of one-character strings, so that strip(), slicing,  *)
(* replace(), int() and datetime.fromisoformat() are computed character by *)
(* character.  The literal fallback texts of the source are kept as one    *)
(* atom each (accents dropped), they are never inspected by the code.      *)
(* A Python value that is a str or None is a record [isNone, text].        *)
(***************************************************************************)
EXTENDS Integers, Sequences, FiniteSets, TLC

VARIABLES pc, request, outbound, reply, response

vars == <<pc, request, outbound, reply, response>>

----------------------------------------------------------------------------
(* Bounds of the model *)

MaxEntries == 2

----------------------------------------------------------------------------
(* Python values and string primitives *)

PyNone == [isNone |-> TRUE, text |-> <<>>]

PyStr(s) == [isNone |-> FALSE, text |-> s]

Whitespace == {" ", "\t", "\n"}

Digits == {"0", "1", "2", "3", "4", "5", "6", "7", "8", "9"}

DigitVal(c) ==
  CASE c = "0" -> 0 [] c = "1" -> 1 [] c = "2" -> 2 [] c = "3" -> 3
    [] c = "4" -> 4 [] c = "5" -> 5 [] c = "6" -> 6 [] c = "7" -> 7
    [] c = "8" -> 8 [] c = "9" -> 9

DigitChar(n) ==
  CASE n = 0 -> "0" [] n = 1 -> "1" [] n = 2 -> "2" [] n = 3 -> "3"
    [] n = 4 -> "4" [] n = 5 -> "5" [] n = 6 -> "6" [] n = 7 -> "7"
    [] n = 8 -> "8" [] n = 9 -> "9"

AllDigits(s) == \A i \in 1..Len(s) : s[i] \in Digits

RECURSIVE NumVal(_)
NumVal(s) ==
  IF s = <<>> THEN 0
  ELSE 10 * NumVal(SubSeq(s, 1, Len(s) - 1)) + DigitVal(s[Len(s)])

RECURSIVE LStrip(_)
LStrip(s) ==
  IF s # <<>> /\ Head(s) \in Whitespace THEN LStrip(Tail(s)) ELSE s

RECURSIVE RStrip(_)
RStrip(s) ==
  IF s # <<>> /\ s[Len(s)] \in Whitespace
  THEN RStrip(SubSeq(s, 1, Len(s) - 1))
  ELSE s

\* str.strip()
Strip(s) == RStrip(LStrip(s))

\* s[:n]
Prefix(s, n) == SubSeq(s, 1, IF Len(s) < n THEN Len(s) ELSE n)

\* s.replace('Z', '+00:00'): every occurrence is replaced
RECURSIVE ReplaceZ(_)
ReplaceZ(s) ==
  IF s = <<>> THEN <<>>
  ELSE (IF Head(s) = "Z" THEN <<"+", "0", "0", ":", "0", "0">> ELSE <<Head(s)>>)
         \o ReplaceZ(Tail(s))

\* ', '.join(xs)
RECURSIVE Join(_)
Join(xs) ==
  IF xs = <<>> THEN <<>>
  ELSE IF Len(xs) = 1 THEN xs[1]
  ELSE xs[1] \o <<",", " ">> \o Join(Tail(xs))

----------------------------------------------------------------------------
(* int(text): surrounding whitespace, an optional sign, decimal digits.    *)
(* (Digit-group underscores are not modelled; no sample contains one.)     *)

IntBody(s) == IF s # <<>> /\ Head(s) \in {"+", "-"} THEN Tail(s) ELSE s

IntOk(s) == IntBody(Strip(s)) # <<>> /\ AllDigits(IntBody(Strip(s)))

IntVal(s) ==
  IF Head(Strip(s)) = "-" THEN 0 - NumVal(IntBody(Strip(s)))
  ELSE NumVal(IntBody(Strip(s)))

----------------------------------------------------------------------------
(* datetime.fromisoformat(text) followed by strftime('%d/%m/%Y').          *)
(* Grammar modelled: YYYY-MM-DD [ sep HH[:MM[:SS]] [ (+|-)HH:MM[:SS] ] ],  *)
(* the part every CPython version providing fromisoformat accepts; the     *)
(* samples stay inside it or are rejected by every version.  Years are     *)
(* >= 1000 in the samples, where %Y prints four digits on every platform.  *)

IsLeap(y) == (y % 4 = 0 /\ y % 100 # 0) \/ y % 400 = 0

DaysInMonth(y, m) ==
  IF m = 2 THEN (IF IsLeap(y) THEN 29 ELSE 28)
  ELSE IF m \in {4, 6, 9, 11} THEN 30 ELSE 31

TwoDigits(s, i) == s[i] \in Digits /\ s[i + 1] \in Digits

DateOk(s) ==
  /\ Len(s) >= 10
  /\ AllDigits(SubSeq(s, 1, 4)) /\ s[5] = "-"
  /\ TwoDigits(s, 6) /\ s[8] = "-" /\ TwoDigits(s, 9)
  /\ NumVal(SubSeq(s, 1, 4)) >= 1
  /\ NumVal(SubSeq(s, 6, 7)) \in 1..12
  /\ NumVal(SubSeq(s, 9, 10)) >= 1
  /\ NumVal(SubSeq(s, 9, 10))
       <= DaysInMonth(NumVal(SubSeq(s, 1, 4)), NumVal(SubSeq(s, 6, 7)))

\* HH[:MM[:SS]]
ClockOk(t) ==
  /\ Len(t) \in {2, 5, 8}
  /\ TwoDigits(t, 1) /\ NumVal(SubSeq(t, 1, 2)) < 24
  /\ Len(t) >= 5 => (t[3] = ":" /\ TwoDigits(t, 4) /\ NumVal(SubSeq(t, 4, 5)) < 60)
  /\ Len(t) >= 8 => (t[6] = ":" /\ TwoDigits(t, 7) /\ NumVal(SubSeq(t, 7, 8)) < 60)

\* position of the first sign character of t, 0 when there is none
RECURSIVE SignPos(_, _)
SignPos(t, i) ==
  IF i > Len(t) THEN 0
  ELSE IF t[i] \in {"+", "-"} THEN i ELSE SignPos(t, i + 1)

TimeOk(t) ==
  IF SignPos(t, 1) = 0 THEN ClockOk(t)
  ELSE /\ ClockOk(SubSeq(t, 1, SignPos(t, 1) - 1))
       /\ Len(t) - SignPos(t, 1) \in {5, 8}
       /\ ClockOk(SubSeq(t, SignPos(t, 1) + 1, Len(t)))

IsoOk(s) ==
  /\ DateOk(s)
  /\ Len(s) > 10 => TimeOk(SubSeq(s, 12, Len(s)))

Pad(n, w) ==
  [i \in 1..w |-> DigitChar((n \div (10 ^ (w - i))) % 10)]

\* date_obj.strftime('%d/%m/%Y') of the parsed value
FormatDate(s) ==
  Pad(NumVal(SubSeq(s, 9, 10)), 2) \o <<"/">>
    \o Pad(NumVal(SubSeq(s, 6, 7)), 2) \o <<"/">>
    \o Pad(NumVal(SubSeq(s, 1, 4)), 4)

----------------------------------------------------------------------------
(* The feed as ElementTree presents it.  A child element is absent, or     *)
(* present with text None (an empty element), or present with a text.      *)
(* An entry has at most one title, summary, published and id, any number   *)
(* of author elements (each with or without a name child), and a first     *)
(* category element with or without a term attribute.                      *)

Absent == [here |-> FALSE, isNone |-> TRUE, text |-> <<>>]

EmptyEl == [here |-> TRUE, isNone |-> TRUE, text |-> <<>>]

El(s) == [here |-> TRUE, isNone |-> FALSE, text |-> s]

NoCategory == [here |-> FALSE, hasTerm |-> FALSE, term |-> <<>>]

CategoryNoTerm == [here |-> TRUE, hasTerm |-> FALSE, term |-> <<>>]

Category(t) == [here |-> TRUE, hasTerm |-> TRUE, term |-> t]

TitleFallback == <<"Titre non disponible">>

AuthorsFallback == <<"Auteur non disponible">>

SummaryFallback == <<"Resume non disponible">>

DateFallback == <<"Date non disponible">>

LinkFallback == <<"#">>

CategoryFallback == <<"Non categorise">>

\* lines 67-68: title_elem.text.strip() raises AttributeError on None
TitleRaises(e) == e.title.here /\ e.title.isNone

TitleValue(e) ==
  IF e.title.here THEN PyStr(Strip(e.title.text)) ELSE PyStr(TitleFallback)

\* lines 71-75: the texts of the name children, None included
RECURSIVE AuthorNames(_)
AuthorNames(as) ==
  IF as = <<>> THEN <<>>
  ELSE (IF Head(as).here THEN <<Head(as)>> ELSE <<>>) \o AuthorNames(Tail(as))

\* line 76: ', '.join raises TypeError when an item is None
AuthorsRaises(e) ==
  \E i \in 1..Len(AuthorNames(e.authors)) : AuthorNames(e.authors)[i].isNone

AuthorsValue(e) ==
  IF AuthorNames(e.authors) # <<>>
  THEN PyStr(Join([i \in 1..Len(AuthorNames(e.authors)) |->
                     AuthorNames(e.authors)[i].text]))
  ELSE PyStr(AuthorsFallback)

\* lines 79-80
SummaryRaises(e) == e.summary.here /\ e.summary.isNone

SummaryValue(e) ==
  IF e.summary.here THEN PyStr(Strip(e.summary.text)) ELSE PyStr(SummaryFallback)

\* lines 83-93: on None, date_str.replace raises inside the inner try and
\* date_str[:10] raises again inside the bare except
DateRaises(e) == e.published.here /\ e.published.isNone

DateValue(e) ==
  IF e.published.here
  THEN LET iso == ReplaceZ(e.published.text)
       IN  IF IsoOk(iso) THEN PyStr(FormatDate(iso))
           ELSE PyStr(Prefix(e.published.text, 10))
  ELSE PyStr(DateFallback)

\* lines 96-97: link_elem.text is stored as it is, None included
LinkValue(e) ==
  IF e.id.here THEN [isNone |-> e.id.isNone, text |-> e.id.text]
  ELSE PyStr(LinkFallback)

\* lines 100-104
CategoryValue(e) ==
  IF e.category.here /\ e.category.hasTerm THEN PyStr(e.category.term)
  ELSE PyStr(CategoryFallback)

\* lines 64-106: an exception anywhere in the loop body leaves the loop
EntryRaises(e) ==
  TitleRaises(e) \/ AuthorsRaises(e) \/ SummaryRaises(e) \/ DateRaises(e)

Article(e) ==
  [title |-> TitleValue(e), authors |-> AuthorsValue(e),
   summary |-> SummaryValue(e), date |-> DateValue(e),
   link |-> LinkValue(e), category |-> CategoryValue(e)]

\* variant: the failing entry is skipped and the loop goes on
RECURSIVE ParseEntries_skip(_)
ParseEntries_skip(es) ==
  IF es = <<>> THEN <<>>
  ELSE (IF EntryRaises(Head(es)) THEN <<>> ELSE <<Article(Head(es))>>)
         \o ParseEntries_skip(Tail(es))

\* lines 63-109: articles appended before the exception are kept
RECURSIVE ParseEntries(_)
ParseEntries(es) ==
  IF es = <<>> \/ EntryRaises(Head(es)) THEN <<>>
  ELSE <<Article(Head(es))>> \o ParseEntries(Tail(es))

\* lines 49-111: ET.fromstring raises on a document that is not well formed
_parse_xml_response(xml_content) ==
  IF xml_content.wellformed THEN ParseEntries(xml_content.entries) ELSE <<>>

----------------------------------------------------------------------------
(* The query client and the /search handler *)

base_url == "http://export.arxiv.org/api/query"

Timeout == 10

DefaultMaxResults == 10

\* lines 29-35
Params(query, max_results) ==
  [search_query |-> <<"a", "l", "l", ":">> \o query, start |-> 0,
   max_results |-> max_results, sortBy |-> "relevance",
   sortOrder |-> "descending"]

\* variant: the GET is issued a second time
IssueGet_retry(log, query, max_results) ==
  Append(Append(log, [url |-> base_url, params |-> Params(query, max_results),
                      timeout |-> Timeout]),
         [url |-> base_url, params |-> Params(query, max_results),
          timeout |-> Timeout])

\* line 38: one requests.get, appended to the log of outbound calls
IssueGet(log, query, max_results) ==
  Append(log, [url |-> base_url, params |-> Params(query, max_results),
               timeout |-> Timeout])

NoReply == [kind |-> "none", status |-> 0, body |-> [wellformed |-> FALSE, entries |-> <<>>]]

\* line 39: raise_for_status raises for a 4xx or 5xx status
HttpError(status) == status >= 400 /\ status < 600

TransportFailure(r) ==
  r.kind \in {"timeout", "connection_error"} \/ (r.kind = "http" /\ HttpError(r.status))

\* variant: only the parser's exceptions are caught
search_articles_uncaught(r) ==
  [raised |-> TransportFailure(r),
   articles |-> IF TransportFailure(r) THEN <<>> ELSE _parse_xml_response(r.body)]

\* lines 38-47, given what requests.get did: every exception is caught and
\* turned into an empty list, so nothing is raised to the caller
search_articles(r) ==
  [raised |-> FALSE,
   articles |-> IF TransportFailure(r) THEN <<>> ELSE _parse_xml_response(r.body)]

\* a request parameter of the query string
Missing == [here |-> FALSE, text |-> <<>>]

Given(s) == [here |-> TRUE, text |-> s]

\* line 124: request.args.get('q', '').strip()
QueryOf(req) == IF req.q.here THEN Strip(req.q.text) ELSE <<>>

\* line 125: int(request.args.get('max_results', 10)) raises ValueError
MaxResultsRaises(req) == req.max_results.here /\ ~IntOk(req.max_results.text)

MaxResultsOf(req) ==
  IF req.max_results.here THEN IntVal(req.max_results.text) ELSE DefaultMaxResults

NoResponse ==
  [kind |-> "none", query |-> <<>>, total_results |-> 0, articles |-> <<>>]

\* an exception that leaves the handler
Fault ==
  [kind |-> "fault", query |-> <<>>, total_results |-> 0, articles |-> <<>>]

\* line 128
ErrorObject ==
  [kind |-> "error", query |-> <<>>, total_results |-> 0, articles |-> <<>>]

\* lines 133-137
ResultObject(query, articles) ==
  [kind |-> "result", query |-> query, total_results |-> Len(articles),
   articles |-> articles]

\* lines 131-137, once requests.get has returned or raised
Respond(req, r) ==
  LET res == search_articles(r)
  IN  IF res.raised THEN Fault ELSE ResultObject(QueryOf(req), res.articles)

----------------------------------------------------------------------------
(* Inputs: request parameters, upstream replies, feeds *)

Routes == {"/search", "/api/search"}

QuerySamples ==
  {Missing, Given(<<>>), Given(<<" ", "\t">>), Given(<<" ", "c", "a", "t", " ">>)}

MaxResultsSamples ==
  {Missing, Given(<<" ", "2", "5">>), Given(<<"a", "b", "c">>),
   Given(<<"2", ".", "5">>), Given(<<>>)}

StatusSamples == {200, 404, 503}

TsInstant == <<"2", "0", "2", "3", "-", "0", "5", "-", "0", "1", "T", "1", "2", ":", "0", "0", ":", "0", "0", "Z">>

TsOffset == <<"2", "0", "2", "4", "-", "0", "2", "-", "2", "9", " ", "2", "3", ":", "3", "0", ":", "0", "0", "-", "0", "5", ":", "0", "0">>

TsBadMonth == <<"2", "0", "2", "3", "-", "1", "3", "-", "0", "1", "T", "1", "2", ":", "0", "0", ":", "0", "0", "Z">>

TsProse == <<"1", " ", "M", "a", "y", " ", "2", "0", "2", "3", " ", "n", "o", "o", "n">>

TsShort == <<"b", "a", "d">>

TitleSamples == {Absent, EmptyEl, El(<<" ", "T", "\n">>), El(<<" ", " ">>)}

AuthorsSamples ==
  {<<>>, <<Absent>>, <<EmptyEl>>, <<El(<<"A">>), Absent>>,
   <<El(<<"A">>), EmptyEl>>, <<El(<<"A">>), El(<<"B">>)>>}

SummarySamples == {Absent, EmptyEl, El(<<"S", " ">>)}

PublishedSamples ==
  {Absent, EmptyEl, El(TsInstant), El(TsOffset), El(TsBadMonth),
   El(TsProse), El(TsShort)}

IdSamples == {Absent, EmptyEl, El(<<"u">>)}

CategorySamples == {NoCategory, CategoryNoTerm, Category(<<"c", "s">>)}

Fields == {"title", "authors", "summary", "published", "id", "category"}

AllEntries ==
  [title : TitleSamples, authors : AuthorsSamples, summary : SummarySamples,
   published : PublishedSamples, id : IdSamples, category : CategorySamples]

FullEntry ==
  [title |-> El(<<" ", "T", "\n">>), authors |-> <<El(<<"A">>), El(<<"B">>)>>,
   summary |-> El(<<"S", " ">>), published |-> El(TsInstant),
   id |-> El(<<"u">>), category |-> Category(<<"c", "s">>)]

BareEntry ==
  [title |-> Absent, authors |-> <<>>, summary |-> Absent,
   published |-> Absent, id |-> Absent, category |-> NoCategory]

Deviations(e, f) == Cardinality({k \in Fields : e[k] # f[k]})

\* the entries that differ in at most one element from the complete entry or
\* from the entry without children
EntrySamples ==
  {e \in AllEntries : Deviations(e, FullEntry) <= 1 \/ Deviations(e, BareEntry) <= 1}

\* the sequences over S of length at most n
RECURSIVE SeqsUpTo(_, _)
SeqsUpTo(S, n) ==
  IF n = 0 THEN {<<>>}
  ELSE LET shorter == SeqsUpTo(S, n - 1)
       IN  shorter \cup {Append(q, x) : q \in {p \in shorter : Len(p) = n - 1}, x \in S}

Malformed == [wellformed |-> FALSE, entries |-> <<>>]

BodySamples ==
  {Malformed} \cup {[wellformed |-> TRUE, entries |-> es] : es \in SeqsUpTo(EntrySamples, MaxEntries)}

----------------------------------------------------------------------------
(* The state machine: one request at a time (section 5: single-threaded,   *)
(* synchronous).  pc is the handler's position; outbound is the log of the *)
(* GETs issued for the request in hand; reply is what requests.get did.    *)

Init ==
  /\ pc = "idle"
  /\ request = [q |-> Missing, max_results |-> Missing]
  /\ outbound = <<>>
  /\ reply = NoReply
  /\ response = NoResponse

\* a request arrives at /search, or at /api/search whose handler calls
\* search(): either way search() runs on the request's arguments
Receive ==
  /\ pc = "idle"
  /\ pc' = "called"
  /\ \E route \in Routes, q \in QuerySamples, mr \in MaxResultsSamples :
       request' = [q |-> q, max_results |-> mr]
  /\ outbound' = <<>>
  /\ reply' = NoReply
  /\ response' = NoResponse

\* lines 124-125: int() raises and nothing catches it
SearchBadMaxResults ==
  /\ pc = "called"
  /\ MaxResultsRaises(request)
  /\ pc' = "done"
  /\ response' = Fault
  /\ UNCHANGED <<request, outbound, reply>>

\* lines 124-128
SearchEmptyQuery ==
  /\ pc = "called"
  /\ ~MaxResultsRaises(request)
  /\ QueryOf(request) = <<>>
  /\ pc' = "done"
  /\ response' = ErrorObject
  /\ UNCHANGED <<request, outbound, reply>>

\* lines 124-131 and 27-38: the handler blocks in requests.get
SearchSend ==
  /\ pc = "called"
  /\ ~MaxResultsRaises(request)
  /\ QueryOf(request) # <<>>
  /\ pc' = "waiting"
  /\ outbound' = IssueGet(outbound, QueryOf(request), MaxResultsOf(request))
  /\ UNCHANGED <<request, reply, response>>

\* requests.get raises Timeout; lines 45-47 and 133-137
SearchOnTimeout ==
  /\ pc = "waiting"
  /\ pc' = "done"
  /\ reply' = [NoReply EXCEPT !.kind = "timeout"]
  /\ response' = Respond(request, reply')
  /\ UNCHANGED <<request, outbound>>

\* requests.get raises ConnectionError; lines 45-47 and 133-137
SearchOnConnectionError ==
  /\ pc = "waiting"
  /\ pc' = "done"
  /\ reply' = [NoReply EXCEPT !.kind = "connection_error"]
  /\ response' = Respond(request, reply')
  /\ UNCHANGED <<request, outbound>>

\* requests.get returns a response with an error status; lines 39, 45-47
SearchOnHttpError ==
  /\ pc = "waiting"
  /\ pc' = "done"
  /\ \E status \in {c \in StatusSamples : HttpError(c)} :
       reply' = [kind |-> "http", status |-> status, body |-> Malformed]
  /\ response' = Respond(request, reply')
  /\ UNCHANGED <<request, outbound>>

\* requests.get returns a response with a success status; lines 39-43
SearchOnHttpOk ==
  /\ pc = "waiting"
  /\ pc' = "done"
  /\ \E status \in {c \in StatusSamples : ~HttpError(c)}, body \in BodySamples :
       reply' = [kind |-> "http", status |-> status, body |-> body]
  /\ response' = Respond(request, reply')
  /\ UNCHANGED <<request, outbound>>

\* the response is sent; nothing of the request is kept
Finish ==
  /\ pc = "done"
  /\ pc' = "idle"
  /\ request' = [q |-> Missing, max_results |-> Missing]
  /\ outbound' = <<>>
  /\ reply' = NoReply
  /\ response' = NoResponse

Next ==
  \/ Receive
  \/ SearchBadMaxResults
  \/ SearchEmptyQuery
  \/ SearchSend
  \/ SearchOnTimeout
  \/ SearchOnConnectionError
  \/ SearchOnHttpError
  \/ SearchOnHttpOk
  \/ Finish

Spec == Init /\ [][Next]_vars

----------------------------------------------------------------------------
(* Properties *)

Articles == response.articles

\* the GET returned a success status
Answered == pc = "done" /\ reply.kind = "http" /\ ~HttpError(reply.status)

\* the GET returned a well-formed feed
Fed == Answered /\ reply.body.wellformed

Entries == reply.body.entries

ArticleFields == {"title", "authors", "summary", "date", "link", "category"}

ArticleField(f) ==
  CASE f = "published" -> "date" [] f = "id" -> "link" [] OTHER -> f

FallbackOf(f) ==
  CASE f = "title" -> TitleFallback [] f = "authors" -> AuthorsFallback
    [] f = "summary" -> SummaryFallback [] f = "published" -> DateFallback
    [] f = "id" -> LinkFallback [] f = "category" -> CategoryFallback

IsAbsent(e, f) == IF f = "authors" THEN e.authors = <<>> ELSE ~e[f].here

\* C1: a well-formed feed of N entries yields exactly N records, the i-th
\* built from the i-th entry, whatever the entries contain.
C1_EveryEntryTranslated ==
  Fed => /\ Len(Articles) = Len(Entries)
         /\ \A i \in 1..Len(Entries) : Articles[i] = Article(Entries[i])

\* C2: a request whose q is missing, empty or blank gets the error object and
\* issues no outbound call, whatever its other parameters.
C2_BlankQueryErrorObject ==
  QueryOf(request) = <<>> =>
    /\ outbound = <<>>
    /\ pc = "done" => response.kind = "error"

\* C3: when the GET times out, cannot connect or returns an error status,
\* search_articles returns an empty list without raising and the handler
\* answers the result object with total_results 0 and no articles.
C3_TransportFailureEmptyResult ==
  (pc = "done" /\ TransportFailure(reply)) =>
    /\ ~search_articles(reply).raised
    /\ search_articles(reply).articles = <<>>
    /\ response.kind = "result"
    /\ response.total_results = 0
    /\ response.articles = <<>>
    /\ response.query = QueryOf(request)

C3_Witness ==
  /\ pc = "done" /\ reply.kind = "timeout"
  /\ response.kind = "result" /\ response.query = <<"c", "a", "t">>

\* C4: on any parsing failure, of the whole document or of one entry after
\* earlier entries were translated, the result is the empty sequence.
C4_ParsingFailureEmptyResult ==
  (Answered /\ (~reply.body.wellformed
                  \/ \E i \in 1..Len(Entries) : EntryRaises(Entries[i]))) =>
    /\ response.articles = <<>>
    /\ response.total_results = 0

\* C5: every request completes with the result object or the error object;
\* no exception leaves the handler.
C5_NoExceptionEscapes ==
  pc = "done" => response.kind \in {"result", "error"}

\* C6: for every entry of a well-formed feed and every field whose element is
\* absent, the entry's record carries the field's fallback text and its other
\* five fields are what they are when the element is present.
C6_AbsentFieldFallback ==
  Fed =>
    \A i \in 1..Len(Entries) : \A f \in Fields :
      IsAbsent(Entries[i], f) =>
        /\ i <= Len(Articles)
        /\ Articles[i][ArticleField(f)] = PyStr(FallbackOf(f))
        /\ \A e \in EntrySamples :
             ((\A g \in Fields \ {f} : e[g] = Entries[i][g]) /\ ~EntryRaises(e)) =>
               \A g \in Fields \ {f} :
                 Articles[i][ArticleField(g)] = Article(e)[ArticleField(g)]

\* C7: every record returned has all six fields, each holding a text, never
\* a null value.
C7_RecordsFullyPopulated ==
  \A i \in 1..Len(Articles) :
    /\ DOMAIN Articles[i] = ArticleFields
    /\ \A g \in ArticleFields : ~Articles[i][g].isNone

\* C8: for every entry with a published element, the date is DD/MM/YYYY when
\* the timestamp parses and its first 10 characters when it does not, and the
\* date step drops neither the record nor a later one.
C8_DateNormalised ==
  Fed =>
    \A i \in 1..Len(Entries) :
      (/\ Entries[i].published.here
       /\ \A j \in 1..(i - 1) : ~EntryRaises(Entries[j])
       /\ ~TitleRaises(Entries[i])
       /\ ~AuthorsRaises(Entries[i])
       /\ ~SummaryRaises(Entries[i])) =>
        /\ i <= Len(Articles)
        /\ ~Articles[i].date.isNone
        /\ Entries[i].published.text = TsInstant =>
             Articles[i].date.text = <<"0", "1", "/", "0", "5", "/", "2", "0", "2", "3">>
        /\ ~IsoOk(ReplaceZ(Entries[i].published.text)) =>
             Articles[i].date.text = Prefix(Entries[i].published.text, 10)

\* C9: a request with a non-blank query and an integer max_results issues
\* exactly one GET to the fixed endpoint, with start 0 and the caller's
\* max_results, before the response is produced; no request issues two.
C9_ExactlyOneGet ==
  /\ Len(outbound) <= 1
  /\ response.kind # "none" => pc = "done"
  /\ (pc \in {"waiting", "done"} /\ QueryOf(request) # <<>>
        /\ ~MaxResultsRaises(request)) =>
       /\ Len(outbound) = 1
       /\ outbound[1].url = base_url
       /\ outbound[1].params.start = 0
       /\ outbound[1].params.max_results = MaxResultsOf(request)
       /\ request.max_results = Given(<<" ", "2", "5">>) =>
            outbound[1].params.max_results = 25
       /\ request.max_results = Missing => outbound[1].params.max_results = 10

C9_Witness ==
  /\ pc = "done" /\ TransportFailure(reply)
  /\ Len(outbound) = 1 /\ outbound[1].params.max_results = 25

\* C10: the list returned by _parse_xml_response is a prefix of the entries'
\* records in document order: when entry k raises, it is exactly the records
\* of entries 1..k-1; total_results is its length.
C10_ResultIsPrefix ==
  Answered =>
    LET es == IF reply.body.wellformed THEN Entries ELSE <<>>
    IN  /\ response.kind = "result"
        /\ response.total_results = Len(Articles)
        /\ Len(Articles) <= Len(es)
        /\ \A i \in 1..Len(Articles) :
             ~EntryRaises(es[i]) /\ Articles[i] = Article(es[i])
        /\ Len(Articles) < Len(es) => EntryRaises(es[Len(Articles) + 1])

C10_Witness ==
  /\ Fed /\ Len(Entries) = 2 /\ Len(Articles) = 1
  /\ EntryRaises(Entries[2]) /\ response.total_results = 1

====
